---- MODULE Spec2Model ----
(***************************************************************************)
(* Model of package kway (merge.go): MergeFunc / MergeSliceFunc, debuffer, *)
(* the pairwise engine merge2 with flush, and the k-way engine merge.      *)
(* One traversal of the returned sequence is modelled step by step, the    *)
(* consumer deciding at each callback whether it continues or stops.       *)
(* Indices i0, i1 and offset are zero-based as in the Go code; TLA+        *)
(* sequences are one-based, so values0[i0] of the code is values0[i0 + 1]. *)
(***************************************************************************)
EXTENDS Integers, Sequences, FiniteSets

VARIABLES
    api,        \* "MergeFunc" or "MergeSliceFunc": the entry point called
    srcs,       \* the values of each input sequence, in order
    seqs,       \* the batched sequences handed to the engines
    pc,         \* position of the traversal in the code
    pos,        \* per source: batches handed out so far by its pull handle
    pulls,      \* per source: number of calls of its next()
    stops,      \* per source: number of calls of its stop()
    taken,      \* per source: items the caller's sequence has produced
    values0, ok0, values1, ok1, i0, i1,   \* locals of merge2
    iters,      \* times the body of merge2's outer loop was entered
    buffer, offset,                         \* locals of merge2 and of merge
    tvalues, ti, tok,                       \* the selection tree's cursors
    treeNexts, treeStops,                   \* calls of tree.next, tree.stop
    treeLog,    \* the values tree.next has returned, in order
    pend, k, ret, yres,                     \* a yield in progress
    out,        \* values delivered to the consumer, in order
    calls,      \* invocations of the consumer's callback
    stopped,    \* the consumer has returned false
    round, prevOut                          \* repeated traversal bookkeeping

vars == <<api, srcs, seqs, pc, pos, pulls, stops, taken,
          values0, ok0, values1, ok1, i0, i1, iters, buffer, offset,
          tvalues, ti, tok, treeNexts, treeStops, treeLog,
          pend, k, ret, yres, out, calls, stopped, round, prevOut>>

----------------------------------------------------------------------------
(* Constants of the program and bounds of the model *)

bufferSize == 128

MaxKey == 3      \* keys are 1..MaxKey
MaxTotal == 3    \* total number of values over all short inputs
MaxN == 3        \* number of input sequences
MaxSparse == 2   \* total number of values of inputs given with empty batches

----------------------------------------------------------------------------
(* Values: V is opaque to the engines; a value carries the key the        *)
(* comparator looks at and the identity (source, position) of the element *)

Zero == [key |-> 0, src |-> 0, pos |-> 0]

cmp(a, b) == IF a.key < b.key THEN -1 ELSE IF a.key > b.key THEN 1 ELSE 0

Min(a, b) == IF a < b THEN a ELSE b

RECURSIVE Flatten(_)
Flatten(bs) == IF bs = <<>> THEN <<>> ELSE Head(bs) \o Flatten(Tail(bs))

RECURSIVE bufferedFunc(_, _)
bufferedFunc(size, s) ==
    IF s = <<>> THEN <<>>
    ELSE <<SubSeq(s, 1, Min(size, Len(s)))>>
         \o bufferedFunc(size, SubSeq(s, Min(size, Len(s)) + 1, Len(s)))

----------------------------------------------------------------------------
(* The inputs a traversal starts from *)

IsSortedKeys(s) == \A a, b \in 1..Len(s) : a < b => s[a] <= s[b]

KeySeqs(maxLen) ==
    { s \in UNION { [1..l -> 1..MaxKey] : l \in 0..maxLen } : IsSortedKeys(s) }

\* n sorted key sequences holding at most budget keys altogether
RECURSIVE SortedInputs(_, _)
SortedInputs(n, budget) ==
    IF n = 0 THEN { <<>> }
    ELSE UNION { { <<s>> \o t : t \in SortedInputs(n - 1, budget - Len(s)) }
                 : s \in KeySeqs(budget) }

Fill(n, key) == [j \in 1..n |-> key]

\* inputs long enough to fill the output buffer
LongInputs ==
    { << Fill(bufferSize - 2, 1) \o <<2, 2>>, <<2, 2, 3>> >>,
      << Fill(bufferSize + 1, 1), <<1, 2>> >>,
      << <<1>>, Fill(bufferSize, 2) >>,
      << Fill(bufferSize - 1, 1), <<1, 2>>, <<2>> >>,
      << Fill(bufferSize - 1, 1) \o <<2>>, <<2>> >> }

\* inputs in which one source is refilled while the other is partly consumed
RefillInputs ==
    { << <<2, 3>>, <<1, 3>> >>,
      << <<1, 2>>, <<1, 1>> >> }

ShortInputs == UNION { SortedInputs(n, MaxTotal) : n \in 0..MaxN }

Tag(keys, i) == [j \in 1..Len(keys) |-> [key |-> keys[j], src |-> i, pos |-> j]]

TagAll(in) == [i \in 1..Len(in) |-> Tag(in[i], i)]

\* every way of cutting s into non-empty batches
RECURSIVE Splits(_)
Splits(s) ==
    IF s = <<>> THEN { <<>> }
    ELSE UNION { { <<SubSeq(s, 1, h)>> \o r : r \in Splits(SubSeq(s, h + 1, Len(s))) }
                 : h \in 1..Len(s) }

RECURSIVE SplitsAll(_)
SplitsAll(ss) ==
    IF ss = <<>> THEN { <<>> }
    ELSE { <<h>> \o t : h \in Splits(Head(ss)), t \in SplitsAll(Tail(ss)) }

\* bs as it is, or with one empty batch put in at any place
WithEmpty(bs) ==
    {bs} \cup { SubSeq(bs, 1, p) \o << <<>> >> \o SubSeq(bs, p + 1, Len(bs))
                : p \in 0..Len(bs) }

\* two sequences of few values, in batches of which some may be empty
SparseBatchings(ss) ==
    IF Len(ss) = 2 /\ Len(ss[1]) + Len(ss[2]) <= MaxSparse
    THEN { <<a, b>> : a \in UNION { WithEmpty(x) : x \in Splits(ss[1]) },
                      b \in UNION { WithEmpty(x) : x \in Splits(ss[2]) } }
    ELSE {}

\* the batched sequences a caller of MergeSliceFunc may pass for these values
Batchings(ss) ==
    IF \A i \in 1..Len(ss) : Len(ss[i]) <= MaxTotal
    THEN SplitsAll(ss) \cup SparseBatchings(ss)
    ELSE { [i \in 1..Len(ss) |-> bufferedFunc(c, ss[i])] : c \in {bufferSize, 2 * bufferSize} }

N == Len(seqs)

\* the switch without its case 1: a single sequence goes to the k-way engine
EngineNoIdentity(n) ==
    CASE n = 0 -> "empty"
      [] n = 2 -> "merge2"
      [] OTHER -> "merge"

\* MergeFunc and MergeSliceFunc: the switch on len(seqs)
Engine(n) ==
    CASE n = 0 -> "empty"
      [] n = 1 -> "identity"
      [] n = 2 -> "merge2"
      [] OTHER -> "merge"

Fresh(a, ss, bs, r, po) ==
    /\ api = a
    /\ srcs = ss
    /\ seqs = bs
    /\ pc = "call"
    /\ pos = [i \in 1..Len(ss) |-> 0]
    /\ pulls = [i \in 1..Len(ss) |-> 0]
    /\ stops = [i \in 1..Len(ss) |-> 0]
    /\ taken = [i \in 1..Len(ss) |-> 0]
    /\ values0 = <<>> /\ ok0 = FALSE /\ values1 = <<>> /\ ok1 = FALSE
    /\ i0 = 0 /\ i1 = 0 /\ iters = 0
    /\ buffer = <<>> /\ offset = 0
    /\ tvalues = <<>> /\ ti = <<>> /\ tok = <<>>
    /\ treeNexts = 0 /\ treeStops = 0 /\ treeLog = <<>>
    /\ pend = <<>> /\ k = 0 /\ ret = "none" /\ yres = TRUE
    /\ out = <<>> /\ calls = 0 /\ stopped = FALSE
    /\ round = r /\ prevOut = po

Init ==
    \E in \in ShortInputs \cup RefillInputs \cup LongInputs :
        \/ Fresh("MergeFunc", TagAll(in),
                 [i \in 1..Len(in) |-> bufferedFunc(bufferSize, Tag(in[i], i))], 1, <<>>)
        \/ \E bs \in Batchings(TagAll(in)) :
               Fresh("MergeSliceFunc", TagAll(in), bs, 1, <<>>)

----------------------------------------------------------------------------
(* Pull handles: next, stop := iter.Pull(seq) *)

HasNext(i) == pos[i] < Len(seqs[i])

\* what next() of source i returns
NextValues(i) == IF HasNext(i) THEN seqs[i][pos[i] + 1] ELSE <<>>

\* items the caller's sequence i has produced once q batches were handed out:
\* under MergeFunc the batches are cut by bufferedFunc from single values
TakenAt(i, q) ==
    IF api = "MergeFunc" THEN Len(Flatten(SubSeq(seqs[i], 1, q))) ELSE q

\* next() is called once on each source of S
Pull(S) ==
    /\ pos' = [i \in DOMAIN pos |-> IF i \in S /\ HasNext(i) THEN pos[i] + 1 ELSE pos[i]]
    /\ pulls' = [i \in DOMAIN pulls |-> IF i \in S THEN pulls[i] + 1 ELSE pulls[i]]
    /\ taken' = [i \in DOMAIN taken |->
                    IF i \in S /\ HasNext(i) THEN TakenAt(i, pos[i] + 1) ELSE taken[i]]

NoPull == UNCHANGED <<pos, pulls, taken>>

inputs == <<api, srcs, seqs, round, prevOut>>
m2locals == <<values0, ok0, values1, ok1, i0, i1, iters>>
treeState == <<tvalues, ti, tok, treeNexts, treeLog>>
consumer == <<out, calls, stopped>>
yielding == <<pend, k, ret, yres>>

----------------------------------------------------------------------------
(* The consumer and debuffer *)

\* yield(batch) is called at a site of merge2, flush or merge
StartYield(batch, site) ==
    /\ pend' = batch
    /\ k' = 0
    /\ ret' = site
    /\ pc' = "yield"
    /\ UNCHANGED yres

\* debuffer, lines 62-66: one value of the batch goes to the consumer
DebufferYield ==
    /\ pc = "yield"
    /\ api = "MergeFunc"
    /\ k < Len(pend)
    /\ out' = Append(out, pend[k + 1])
    /\ calls' = calls + 1
    /\ k' = k + 1
    /\ \E go \in BOOLEAN :
          IF go
          THEN UNCHANGED <<pc, yres, stopped>>
          ELSE /\ stopped' = TRUE
               /\ yres' = FALSE
               /\ pc' = ret
    /\ UNCHANGED <<inputs, pos, pulls, stops, taken, m2locals, buffer, offset,
                   treeState, treeStops, pend, ret>>

\* debuffer, line 67: the batch is through, the callback returns true
DebufferDone ==
    /\ pc = "yield"
    /\ api = "MergeFunc"
    /\ k = Len(pend)
    /\ yres' = TRUE
    /\ pc' = ret
    /\ UNCHANGED <<inputs, pos, pulls, stops, taken, m2locals, buffer, offset,
                   treeState, treeStops, pend, k, ret, consumer>>

\* MergeSliceFunc: the consumer receives the batch itself
ConsumerBatch ==
    /\ pc = "yield"
    /\ api = "MergeSliceFunc"
    /\ out' = out \o pend
    /\ calls' = calls + 1
    /\ k' = Len(pend)
    /\ \E go \in BOOLEAN :
          /\ yres' = go
          /\ stopped' = ~go
    /\ pc' = ret
    /\ UNCHANGED <<inputs, pos, pulls, stops, taken, m2locals, buffer, offset,
                   treeState, treeStops, pend, ret>>

----------------------------------------------------------------------------
(* MergeFunc / MergeSliceFunc with zero or one sequence *)

\* case 0: the returned sequence does nothing
CallEmpty ==
    /\ pc = "call"
    /\ Engine(N) = "empty"
    /\ pc' = "done"
    /\ UNCHANGED <<inputs, pos, pulls, stops, taken, m2locals, buffer, offset,
                   treeState, treeStops, yielding, consumer>>

\* case 1: the returned sequence is seqs[0]; the consumer ranges over it
CallIdentity ==
    /\ pc = "call"
    /\ Engine(N) = "identity"
    /\ pc' = "identity"
    /\ UNCHANGED <<inputs, pos, pulls, stops, taken, m2locals, buffer, offset,
                   treeState, treeStops, yielding, consumer>>

\* the items of the caller's sequence: values (MergeFunc) or batches
Items(i) == IF api = "MergeFunc" THEN [j \in 1..Len(srcs[i]) |-> <<srcs[i][j]>>]
            ELSE seqs[i]

\* the caller's own sequence hands its next item to the consumer
IdentityYield ==
    /\ pc = "identity"
    /\ taken[1] < Len(Items(1))
    /\ taken' = [taken EXCEPT ![1] = @ + 1]
    /\ out' = out \o Items(1)[taken[1] + 1]
    /\ calls' = calls + 1
    /\ \E go \in BOOLEAN :
          /\ stopped' = ~go
          /\ pc' = IF go THEN "identity" ELSE "done"
    /\ UNCHANGED <<inputs, pos, pulls, stops, m2locals, buffer, offset,
                   treeState, treeStops, yielding>>

IdentityEnd ==
    /\ pc = "identity"
    /\ taken[1] = Len(Items(1))
    /\ pc' = "done"
    /\ UNCHANGED <<inputs, pos, pulls, stops, taken, m2locals, buffer, offset,
                   treeState, treeStops, yielding, consumer>>

----------------------------------------------------------------------------
(* merge2: the pairwise engine *)

\* lines 75-84: both handles are made, both first batches pulled
CallMerge2 ==
    /\ pc = "call"
    /\ Engine(N) = "merge2"
    /\ values0' = NextValues(1) /\ ok0' = HasNext(1)
    /\ values1' = NextValues(2) /\ ok1' = HasNext(2)
    /\ Pull({1, 2})
    /\ buffer' = [j \in 1..bufferSize |-> Zero]
    /\ offset' = 0
    /\ pc' = "m2_outer"
    /\ UNCHANGED <<inputs, stops, i0, i1, iters, treeState, treeStops, yielding,
                   consumer>>

\* line 86 and lines 87-88
M2Outer ==
    /\ pc = "m2_outer"
    /\ IF ok0 /\ ok1
       THEN /\ i0' = 0
            /\ i1' = 0
            /\ iters' = iters + 1
            /\ pc' = "m2_inner"
       ELSE /\ pc' = "m2_final"
            /\ UNCHANGED <<i0, i1, iters>>
    /\ NoPull
    /\ UNCHANGED <<inputs, stops, values0, ok0, values1, ok1, buffer, offset,
                   treeState, treeStops, yielding, consumer>>

InnerCond == i0 < Len(values0) /\ i1 < Len(values1)

\* a test that yields the buffer only once it is entirely full
bufferFullLate(off) == off >= Len(buffer)

\* line 94: no room is left for the two values a tie writes
bufferFull(off) == (off + 1) >= Len(buffer)

\* the comparison that keeps one of two equal values and advances both cursors
CompareAtDedup(off) ==
    LET v0 == values0[i0 + 1]
        v1 == values1[i1 + 1]
        diff == cmp(v0, v1)
    IN  CASE diff < 0 ->
               /\ buffer' = [buffer EXCEPT ![off + 1] = v0]
               /\ offset' = off + 1
               /\ i0' = i0 + 1
               /\ i1' = i1
          [] diff > 0 ->
               /\ buffer' = [buffer EXCEPT ![off + 1] = v1]
               /\ offset' = off + 1
               /\ i0' = i0
               /\ i1' = i1 + 1
          [] OTHER ->
               /\ buffer' = [buffer EXCEPT ![off + 1] = v0]
               /\ offset' = off + 1
               /\ i0' = i0 + 1
               /\ i1' = i1 + 1

\* lines 101-117, the output buffer being filled up to off
CompareAt(off) ==
    LET v0 == values0[i0 + 1]
        v1 == values1[i1 + 1]
        diff == cmp(v0, v1)
    IN  CASE diff < 0 ->
               /\ buffer' = [buffer EXCEPT ![off + 1] = v0]
               /\ offset' = off + 1
               /\ i0' = i0 + 1
               /\ i1' = i1
          [] diff > 0 ->
               /\ buffer' = [buffer EXCEPT ![off + 1] = v1]
               /\ offset' = off + 1
               /\ i0' = i0
               /\ i1' = i1 + 1
          [] OTHER ->
               /\ buffer' = [buffer EXCEPT ![off + 1] = v0, ![off + 2] = v1]
               /\ offset' = off + 2
               /\ i0' = i0 + 1
               /\ i1' = i1 + 1

\* lines 90-117 when the buffer has room
M2Compare ==
    /\ pc = "m2_inner"
    /\ InnerCond
    /\ ~bufferFull(offset)
    /\ CompareAt(offset)
    /\ NoPull
    /\ UNCHANGED <<inputs, pc, stops, values0, ok0, values1, ok1, iters,
                   treeState, treeStops, yielding, consumer>>

\* lines 94-95: the buffer is yielded before the comparison
M2Full ==
    /\ pc = "m2_inner"
    /\ InnerCond
    /\ bufferFull(offset)
    /\ StartYield(SubSeq(buffer, 1, offset), "m2_yielded")
    /\ NoPull
    /\ UNCHANGED <<inputs, stops, m2locals, buffer, offset, treeState, treeStops,
                   consumer>>

\* lines 95-117 once that yield has returned
M2Yielded ==
    /\ pc = "m2_yielded"
    /\ IF ~yres
       THEN /\ pc' = "m2_return"
            /\ UNCHANGED <<buffer, offset, i0, i1>>
       ELSE /\ CompareAt(0)
            /\ pc' = "m2_inner"
    /\ NoPull
    /\ UNCHANGED <<inputs, stops, values0, ok0, values1, ok1, iters,
                   treeState, treeStops, yielding, consumer>>

\* a refill that pulls a source whenever the inner loop has ended
M2RefillEager ==
    /\ pc = "m2_inner"
    /\ ~InnerCond
    /\ i0' = 0
    /\ values0' = NextValues(1)
    /\ ok0' = HasNext(1)
    /\ IF i1 = Len(values1)
       THEN /\ i1' = 0
            /\ values1' = NextValues(2)
            /\ ok1' = HasNext(2)
       ELSE UNCHANGED <<i1, values1, ok1>>
    /\ Pull({ j \in {1, 2} : IF j = 1 THEN TRUE ELSE i1 = Len(values1) })
    /\ pc' = "m2_outer"
    /\ UNCHANGED <<inputs, stops, iters, buffer, offset, treeState, treeStops,
                   yielding, consumer>>

\* a refill whose tests never hold, so that no batch is replaced
M2RefillNever ==
    /\ pc = "m2_inner"
    /\ ~InnerCond
    /\ pc' = "m2_outer"
    /\ NoPull
    /\ UNCHANGED <<inputs, stops, m2locals, buffer, offset, treeState, treeStops,
                   yielding, consumer>>

\* lines 120-128: a batch that is used up is replaced by the next one
M2Refill ==
    /\ pc = "m2_inner"
    /\ ~InnerCond
    /\ IF i0 = Len(values0)
       THEN /\ i0' = 0
            /\ values0' = NextValues(1)
            /\ ok0' = HasNext(1)
       ELSE UNCHANGED <<i0, values0, ok0>>
    /\ IF i1 = Len(values1)
       THEN /\ i1' = 0
            /\ values1' = NextValues(2)
            /\ ok1' = HasNext(2)
       ELSE UNCHANGED <<i1, values1, ok1>>
    /\ Pull({ j \in {1, 2} : IF j = 1 THEN i0 = Len(values0) ELSE i1 = Len(values1) })
    /\ pc' = "m2_outer"
    /\ UNCHANGED <<inputs, stops, iters, buffer, offset, treeState, treeStops,
                   yielding, consumer>>

\* lines 131-132
M2Final ==
    /\ pc = "m2_final"
    /\ IF offset > 0
       THEN StartYield(SubSeq(buffer, 1, offset), "m2_final_yielded")
       ELSE /\ pc' = "flush0"
            /\ UNCHANGED yielding
    /\ NoPull
    /\ UNCHANGED <<inputs, stops, m2locals, buffer, offset, treeState, treeStops,
                   consumer>>

\* lines 132-134
M2FinalYielded ==
    /\ pc = "m2_final_yielded"
    /\ pc' = IF ~yres THEN "m2_return" ELSE "flush0"
    /\ NoPull
    /\ UNCHANGED <<inputs, stops, m2locals, buffer, offset, treeState, treeStops,
                   yielding, consumer>>

\* flush(yield, next0, values0, ok0), line 143: ok && yield(values)
Flush0 ==
    /\ pc = "flush0"
    /\ IF ok0
       THEN StartYield(values0, "flush0_yielded")
       ELSE /\ pc' = "flush1"
            /\ UNCHANGED yielding
    /\ NoPull
    /\ UNCHANGED <<inputs, stops, m2locals, buffer, offset, treeState, treeStops,
                   consumer>>

\* flush whose loop tests ok alone and not the result of the yield
Flush0YieldedIgnoringStop ==
    /\ pc = "flush0_yielded"
    /\ values0' = NextValues(1)
    /\ ok0' = HasNext(1)
    /\ Pull({1})
    /\ pc' = "flush0"
    /\ UNCHANGED <<inputs, stops, values1, ok1, i0, i1, iters, buffer, offset,
                   treeState, treeStops, yielding, consumer>>

\* lines 143-144: the loop goes on only if the yield returned true
Flush0Yielded ==
    /\ pc = "flush0_yielded"
    /\ IF yres
       THEN /\ values0' = NextValues(1)
            /\ ok0' = HasNext(1)
            /\ Pull({1})
            /\ pc' = "flush0"
       ELSE /\ pc' = "flush1"
            /\ NoPull
            /\ UNCHANGED <<values0, ok0>>
    /\ UNCHANGED <<inputs, stops, values1, ok1, i0, i1, iters, buffer, offset,
                   treeState, treeStops, yielding, consumer>>

\* flush(yield, next1, values1, ok1)
Flush1 ==
    /\ pc = "flush1"
    /\ IF ok1
       THEN StartYield(values1, "flush1_yielded")
       ELSE /\ pc' = "m2_return"
            /\ UNCHANGED yielding
    /\ NoPull
    /\ UNCHANGED <<inputs, stops, m2locals, buffer, offset, treeState, treeStops,
                   consumer>>

Flush1Yielded ==
    /\ pc = "flush1_yielded"
    /\ IF yres
       THEN /\ values1' = NextValues(2)
            /\ ok1' = HasNext(2)
            /\ Pull({2})
            /\ pc' = "flush1"
       ELSE /\ pc' = "m2_return"
            /\ NoPull
            /\ UNCHANGED <<values1, ok1>>
    /\ UNCHANGED <<inputs, stops, values0, ok0, i0, i1, iters, buffer, offset,
                   treeState, treeStops, yielding, consumer>>

\* merge2 without its defer stop0()
merge2DefersLeak(st) == [st EXCEPT ![2] = @ + 1]

\* the deferred calls of lines 76 and 79: stop1(), then stop0()
merge2Defers(st) == [st EXCEPT ![2] = @ + 1, ![1] = @ + 1]

\* merge2 returns, by line 96, line 133 or the end of the function
M2Return ==
    /\ pc = "m2_return"
    /\ stops' = merge2Defers(stops)
    /\ pc' = "done"
    /\ NoPull
    /\ UNCHANGED <<inputs, m2locals, buffer, offset, treeState, treeStops,
                   yielding, consumer>>

----------------------------------------------------------------------------
(* The selection tree: makeTree, tree.next, tree.stop *)

\* the non-empty batches of source i after the first p
Later(i, p) == { q \in (p + 1)..Len(seqs[i]) : seqs[i][q] # <<>> }

\* a source is pulled until it gives a non-empty batch or is exhausted
RefillOk(i, p) == Later(i, p) # {}
RefillPos(i, p) ==
    IF RefillOk(i, p)
    THEN CHOOSE q \in Later(i, p) : \A r \in Later(i, p) : q <= r
    ELSE Len(seqs[i])
RefillPulls(i, p) ==
    IF RefillOk(i, p) THEN RefillPos(i, p) - p ELSE Len(seqs[i]) - p + 1

treeHead(i) == tvalues[i][ti[i] + 1]

treeLive == { i \in DOMAIN tok : tok[i] }

\* a selection in which the highest index wins ties
treeWinnerLast ==
    CHOOSE w \in treeLive :
        \A j \in treeLive :
            \/ cmp(treeHead(w), treeHead(j)) < 0
            \/ cmp(treeHead(w), treeHead(j)) = 0 /\ w >= j

\* the source holding the minimum head, the lowest index winning ties
treeWinner ==
    CHOOSE w \in treeLive :
        \A j \in treeLive :
            \/ cmp(treeHead(w), treeHead(j)) < 0
            \/ cmp(treeHead(w), treeHead(j)) = 0 /\ w <= j

\* makeTree(seqs...): a handle per source, each advanced to its first head
makeTree ==
    /\ tvalues' = [i \in 1..N |-> IF RefillOk(i, 0) THEN seqs[i][RefillPos(i, 0)] ELSE <<>>]
    /\ ti' = [i \in 1..N |-> 0]
    /\ tok' = [i \in 1..N |-> RefillOk(i, 0)]
    /\ pos' = [i \in 1..N |-> RefillPos(i, 0)]
    /\ pulls' = [i \in 1..N |-> RefillPulls(i, 0)]
    /\ taken' = [i \in 1..N |-> TakenAt(i, RefillPos(i, 0))]

\* tree.next(cmp) when a source still has a head: the winner's cursor advances
treeAdvance(w) ==
    IF ti[w] + 1 < Len(tvalues[w])
    THEN /\ ti' = [ti EXCEPT ![w] = @ + 1]
         /\ UNCHANGED <<tvalues, tok>>
         /\ NoPull
    ELSE /\ ti' = [ti EXCEPT ![w] = 0]
         /\ tok' = [tok EXCEPT ![w] = RefillOk(w, pos[w])]
         /\ tvalues' = [tvalues EXCEPT
                           ![w] = IF RefillOk(w, pos[w])
                                  THEN seqs[w][RefillPos(w, pos[w])] ELSE <<>>]
         /\ pos' = [pos EXCEPT ![w] = RefillPos(w, pos[w])]
         /\ pulls' = [pulls EXCEPT ![w] = @ + RefillPulls(w, pos[w])]
         /\ taken' = [taken EXCEPT ![w] = TakenAt(w, RefillPos(w, pos[w]))]

\* tree.stop(): every handle is stopped
treeStop(st) == [i \in DOMAIN st |-> st[i] + 1]

----------------------------------------------------------------------------
(* merge: the k-way engine *)

\* lines 151-155
CallMerge ==
    /\ pc = "call"
    /\ Engine(N) = "merge"
    /\ makeTree
    /\ buffer' = [j \in 1..bufferSize |-> Zero]
    /\ offset' = 0
    /\ pc' = "mk_loop"
    /\ UNCHANGED <<inputs, stops, m2locals, treeNexts, treeStops, treeLog, yielding,
                   consumer>>

\* lines 158-165: one value is taken from the tree into the buffer
MkNext ==
    /\ pc = "mk_loop"
    /\ treeLive # {}
    /\ treeNexts' = treeNexts + 1
    /\ treeLog' = Append(treeLog, treeHead(treeWinner))
    /\ treeAdvance(treeWinner)
    /\ buffer' = [buffer EXCEPT ![offset + 1] = treeHead(treeWinner)]
    /\ offset' = offset + 1
    /\ IF offset + 1 = Len(buffer)
       THEN StartYield([buffer EXCEPT ![offset + 1] = treeHead(treeWinner)], "mk_yielded")
       ELSE UNCHANGED <<pc, yielding>>
    /\ UNCHANGED <<inputs, stops, m2locals, treeStops, consumer>>

\* lines 158-160: the tree is exhausted, the loop is left
MkBreak ==
    /\ pc = "mk_loop"
    /\ treeLive = {}
    /\ treeNexts' = treeNexts + 1
    /\ pc' = "mk_final"
    /\ NoPull
    /\ UNCHANGED <<inputs, stops, m2locals, buffer, offset, tvalues, ti, tok,
                   treeLog, treeStops, yielding, consumer>>

\* merge whose early return leaves without running tree.stop
MkYieldedNoDefer ==
    /\ pc = "mk_yielded"
    /\ IF ~yres
       THEN /\ pc' = "done"
            /\ UNCHANGED offset
       ELSE /\ offset' = 0
            /\ pc' = "mk_loop"
    /\ NoPull
    /\ UNCHANGED <<inputs, stops, m2locals, buffer, treeState, treeStops,
                   yielding, consumer>>

\* merge that empties the buffer and goes on whatever the yield returned
MkYieldedNoReturn ==
    /\ pc = "mk_yielded"
    /\ offset' = 0
    /\ pc' = "mk_loop"
    /\ NoPull
    /\ UNCHANGED <<inputs, stops, m2locals, buffer, treeState, treeStops,
                   yielding, consumer>>

\* lines 165-168
MkYielded ==
    /\ pc = "mk_yielded"
    /\ IF ~yres
       THEN /\ pc' = "mk_return"
            /\ UNCHANGED offset
       ELSE /\ offset' = 0
            /\ pc' = "mk_loop"
    /\ NoPull
    /\ UNCHANGED <<inputs, stops, m2locals, buffer, treeState, treeStops,
                   yielding, consumer>>

\* merge that returns without the final yield of lines 172-174
MkFinalDropsPartial ==
    /\ pc = "mk_final"
    /\ pc' = "mk_return"
    /\ NoPull
    /\ UNCHANGED <<inputs, stops, m2locals, buffer, offset, treeState, treeStops,
                   yielding, consumer>>

\* lines 172-173
MkFinal ==
    /\ pc = "mk_final"
    /\ IF offset > 0
       THEN StartYield(SubSeq(buffer, 1, offset), "mk_return")
       ELSE /\ pc' = "mk_return"
            /\ UNCHANGED yielding
    /\ NoPull
    /\ UNCHANGED <<inputs, stops, m2locals, buffer, offset, treeState, treeStops,
                   consumer>>

\* the deferred call of line 152: the calls of tree.stop so far, plus one
mergeDefers(n) == n + 1

\* merge returns, by line 166 or the end of the function
MkReturn ==
    /\ pc = "mk_return"
    /\ treeStops' = mergeDefers(treeStops)
    /\ stops' = IF mergeDefers(treeStops) > treeStops
                THEN treeStop(stops) ELSE stops
    /\ pc' = "done"
    /\ NoPull
    /\ UNCHANGED <<inputs, m2locals, buffer, offset, treeState, yielding, consumer>>

----------------------------------------------------------------------------
(* The traversal *)

Next ==
    \/ CallEmpty \/ CallIdentity \/ IdentityYield \/ IdentityEnd
    \/ DebufferYield \/ DebufferDone \/ ConsumerBatch
    \/ CallMerge2 \/ M2Outer \/ M2Compare \/ M2Full \/ M2Yielded \/ M2Refill
    \/ M2Final \/ M2FinalYielded
    \/ Flush0 \/ Flush0Yielded \/ Flush1 \/ Flush1Yielded \/ M2Return
    \/ CallMerge \/ MkNext \/ MkBreak \/ MkYielded \/ MkFinal \/ MkReturn

Spec == Init /\ [][Next]_vars

\* the caller merges the same values again, presented in other batches
Rebatch ==
    /\ pc = "done"
    /\ round = 1
    /\ ~stopped
    /\ api = "MergeSliceFunc"
    /\ N >= 2
    /\ \E bs \in Batchings(srcs) \ {seqs} : seqs' = bs
    /\ round' = 2
    /\ prevOut' = out
    /\ pc' = "call"
    /\ pos' = [i \in 1..N |-> 0]
    /\ pulls' = [i \in 1..N |-> 0]
    /\ stops' = [i \in 1..N |-> 0]
    /\ taken' = [i \in 1..N |-> 0]
    /\ values0' = <<>> /\ ok0' = FALSE /\ values1' = <<>> /\ ok1' = FALSE
    /\ i0' = 0 /\ i1' = 0 /\ iters' = 0
    /\ buffer' = <<>> /\ offset' = 0
    /\ tvalues' = <<>> /\ ti' = <<>> /\ tok' = <<>>
    /\ treeNexts' = 0 /\ treeStops' = 0 /\ treeLog' = <<>>
    /\ pend' = <<>> /\ k' = 0 /\ ret' = "none" /\ yres' = TRUE
    /\ out' = <<>> /\ calls' = 0
    /\ UNCHANGED <<api, srcs, stopped>>

SpecRebatch == Init /\ [][Next \/ Rebatch]_vars

\* the traversal is one sequential computation: a step that can be taken is taken
SpecLive == Init /\ [][Next]_vars /\ WF_vars(Next)

----------------------------------------------------------------------------
(* A source that fails while it is pulled: its next() panics, the panic   *)
(* unwinds the engine, running its deferred calls, and reaches the caller *)

\* next() succeeded on the sources of S, then the next() of source i panics
PullPanics(S, i) ==
    /\ pos' = [j \in DOMAIN pos |-> IF j \in S /\ HasNext(j) THEN pos[j] + 1 ELSE pos[j]]
    /\ taken' = [j \in DOMAIN taken |->
                    IF j \in S /\ HasNext(j) THEN TakenAt(j, pos[j] + 1) ELSE taken[j]]
    /\ pulls' = [j \in DOMAIN pulls |->
                    IF j \in S \cup {i} THEN pulls[j] + 1 ELSE pulls[j]]

\* merge2: next0 or next1 panics at lines 81-82, 122, 127 or 144; no recover
\* exists, so the deferred stop1 and stop0 run and the panic goes on
M2PullPanics ==
    /\ Engine(N) = "merge2"
    /\ \/ /\ pc = "call"
          /\ \E i \in {1, 2} : PullPanics(IF i = 2 THEN {1} ELSE {}, i)
       \/ /\ pc = "m2_inner"
          /\ ~InnerCond
          /\ \E i \in {1, 2} :
                /\ IF i = 1 THEN i0 = Len(values0) ELSE i1 = Len(values1)
                /\ PullPanics(IF i = 2 /\ i0 = Len(values0) THEN {1} ELSE {}, i)
       \/ /\ pc = "flush0_yielded"
          /\ yres
          /\ PullPanics({}, 1)
       \/ /\ pc = "flush1_yielded"
          /\ yres
          /\ PullPanics({}, 2)
    /\ stops' = merge2Defers(stops)
    /\ pc' = "panicked"
    /\ UNCHANGED <<inputs, m2locals, buffer, offset, treeState, treeStops,
                   yielding, consumer>>

\* merge: a pull made inside tree.next (line 158) panics; the deferred
\* tree.stop of line 152 runs and the panic goes on
MkNextPanics ==
    /\ pc = "mk_loop"
    /\ treeLive # {}
    /\ ti[treeWinner] + 1 = Len(tvalues[treeWinner])
    /\ PullPanics({}, treeWinner)
    /\ treeNexts' = treeNexts + 1
    /\ treeStops' = mergeDefers(treeStops)
    /\ stops' = IF mergeDefers(treeStops) > treeStops
                THEN treeStop(stops) ELSE stops
    /\ pc' = "panicked"
    /\ UNCHANGED <<inputs, m2locals, buffer, offset, tvalues, ti, tok, treeLog,
                   yielding, consumer>>

\* makeTree (line 151) fails on a first pull, before merge has deferred
\* tree.stop: the tree itself stops the handles it made before the panic
\* goes on
makeTreePanics ==
    /\ pc = "call"
    /\ Engine(N) = "merge"
    /\ \E i \in 1..N : PullPanics(1..(i - 1), i)
    /\ stops' = treeStop(stops)
    /\ pc' = "panicked"
    /\ UNCHANGED <<inputs, m2locals, buffer, offset, treeState, treeStops,
                   yielding, consumer>>

SpecFail == Init /\ [][Next \/ M2PullPanics \/ MkNextPanics \/ makeTreePanics]_vars

----------------------------------------------------------------------------
(* Properties *)

RECURSIVE SumLen(_)
SumLen(ss) == IF ss = <<>> THEN 0 ELSE Len(Head(ss)) + SumLen(Tail(ss))

\* the traversal is over and the consumer never stopped
Completed == pc = "done" /\ ~stopped

\* the positions of out holding the element e
Places(e) == { m \in 1..Len(out) : out[m] = e }

FlushSites == {"flush0_yielded", "flush1_yielded"}

\* C1: with a consumer that never stops, the number of values delivered is
\* the sum of the lengths of the input sequences
C1_OutputLength == Completed => Len(out) = SumLen(srcs)

\* C2: no delivered value compares less than a value delivered before it
C2_OutputSorted ==
    \A a, b \in 1..Len(out) : a < b => cmp(out[b], out[a]) >= 0

\* C3: with a consumer that never stops, every element of every input is in
\* the output exactly once, and the elements of one source keep their order
C3_Interleaving ==
    Completed =>
        /\ \A i \in 1..N : \A j \in 1..Len(srcs[i]) :
               Cardinality(Places(srcs[i][j])) = 1
        /\ \A a, b \in 1..Len(out) :
               (a < b /\ out[a].src = out[b].src) => out[a].pos < out[b].pos

\* C4: once the consumer has returned stop, its callback is not invoked again
\* and nothing more is delivered; under MergeFunc each call delivers one value,
\* so a stop on the m-th value leaves exactly m values delivered
C4_StopIsFinal ==
    /\ [][stopped => (stopped' /\ calls' = calls /\ out' = out)]_vars
    /\ [](api = "MergeFunc" => Len(out) = calls)

\* the consumer stopped during the drain while the drained source had more
C4_Witness ==
    /\ pc = "done" /\ stopped
    /\ ret = "flush0_yielded"
    /\ HasNext(1)
    /\ Len(out) > Len(pend)

\* C5: when a 2-way traversal has returned, stop0 and stop1 have been called
C5_HandlesReleased ==
    (pc = "done" /\ Engine(N) = "merge2") => (stops[1] >= 1 /\ stops[2] >= 1)

\* the consumer stopped in the middle of a full batch of the comparison phase
C5_Witness ==
    /\ pc = "done" /\ Engine(N) = "merge2" /\ stopped
    /\ ret = "m2_yielded"
    /\ 0 < k /\ k < Len(pend)

\* C6: a k-way traversal runs tree.stop exactly once, so each handle is
\* stopped exactly once: never twice, and once when the traversal has returned
C6_TreeStoppedOnce ==
    Engine(N) = "merge" =>
        /\ treeStops <= 1
        /\ \A i \in 1..N : stops[i] = treeStops
        /\ pc = "done" => treeStops = 1

\* the consumer stopped on a full batch of the k-way engine
C6_Witness ==
    /\ pc = "done" /\ Engine(N) = "merge" /\ stopped
    /\ ret = "mk_yielded"
    /\ treeLive # {}

\* C7: after the consumer has stopped, no source's next and no tree.next is
\* called
C7_NoPullAfterStop ==
    [][stopped => (pulls' = pulls /\ treeNexts' = treeNexts /\ pos' = pos)]_vars

\* the consumer stopped while a source still had a batch to give
C7_Witness ==
    /\ pc = "done" /\ stopped
    /\ Engine(N) \in {"merge2", "merge"}
    /\ \E i \in 1..N : HasNext(i) /\ pulls[i] > 0

\* C8: with no sequence the consumer is never called; with one sequence the
\* consumer gets that sequence's items as the sequence produces them, one call
\* per item, through no pull handle and no buffer
C8_Degenerate ==
    /\ N = 0 => (calls = 0 /\ out = <<>>)
    /\ N = 1 =>
          /\ out = Flatten(SubSeq(Items(1), 1, taken[1]))
          /\ calls = taken[1]
          /\ pulls[1] = 0 /\ stops[1] = 0
          /\ buffer = <<>>
          /\ Completed => out = srcs[1]

\* a single sequence of several items was consumed to its end
C8_Witness == N = 1 /\ Completed /\ calls >= 2 /\ out = srcs[1]

\* C9: the flattened output is the same however the same input values are
\* split into batches
C9_BatchInvariance == (Completed /\ round = 2) => out = prevOut

\* C10: a batch emitted by the drain holds no value that was already emitted
C10_DrainOnlyRemainder ==
    (pc = "yield" /\ ret \in FlushSites /\ k = 0) =>
        \A j \in 1..Len(pend) : Places(pend[j]) = {}

\* the values written to the output buffer and not yet yielded
Staged == SubSeq(buffer, 1, offset)

\* the values merge2 or merge has emitted when it is not inside a yield
Emitted == out \o Staged

InEmitted(e) == \E m \in 1..Len(Emitted) : Emitted[m] = e

\* C11: whenever the pairwise comparison is at work, each source's cursor
\* stands at the first value of its current batch that was not yet emitted,
\* also for the source that was not refilled
C11_CursorKept ==
    pc = "m2_inner" =>
        /\ \A j \in 1..Len(values0) : (j <= i0) <=> InEmitted(values0[j])
        /\ \A j \in 1..Len(values1) : (j <= i1) <=> InEmitted(values1[j])

\* C12: a comparison step on a 'less' emits the left head alone and advances
\* the left cursor alone, on a 'greater' the right head and the right cursor,
\* and on an 'equal' emits both heads, left then right, and advances both
C12_CompareStep ==
    [][((pc = "m2_inner" \/ pc = "m2_yielded") /\ pc' = "m2_inner") =>
         LET v0 == values0[i0 + 1]
             v1 == values1[i1 + 1]
             before == IF pc = "m2_yielded" THEN <<>> ELSE Staged
             after == SubSeq(buffer', 1, offset')
         IN  /\ cmp(v0, v1) < 0 =>
                  (after = before \o <<v0>> /\ i0' = i0 + 1 /\ i1' = i1)
             /\ cmp(v0, v1) > 0 =>
                  (after = before \o <<v1>> /\ i0' = i0 /\ i1' = i1 + 1)
             /\ cmp(v0, v1) = 0 =>
                  (after = before \o <<v0, v1>> /\ i0' = i0 + 1 /\ i1' = i1 + 1)
      ]_vars

\* a tie has just been emitted, the left head before the right one
C12_Witness ==
    /\ pc = "m2_inner"
    /\ offset >= 3 /\ i0 >= 1 /\ i1 >= 1
    /\ buffer[offset - 1] = values0[i0]
    /\ buffer[offset] = values1[i1]
    /\ cmp(values0[i0], values1[i1]) = 0

\* the batch of source i that merge2 holds
Held(i) == IF i = 1 THEN values0 ELSE values1

\* C13: in the pairwise engine a call of a source's next is either its first
\* one or comes when every value of the batch held from that source has been
\* emitted, one call at a time, and never after that source has reported that
\* it has no further batch
C13_LazyPull ==
    [][Engine(N) = "merge2" =>
         \A i \in {1, 2} :
             pulls'[i] > pulls[i] =>
                 /\ pulls'[i] = pulls[i] + 1
                 /\ pulls[i] = pos[i]
                 /\ pulls[i] > 0 =>
                       \A j \in 1..Len(Held(i)) :
                           \E m \in 1..Len(Emitted) : Emitted[m] = Held(i)[j]
      ]_vars

\* one source was refilled while the batch of the other was partly consumed
C13_Witness ==
    /\ pc = "m2_outer" /\ ok0 /\ ok1
    /\ pulls[1] = 2 /\ pulls[2] = 1
    /\ 0 < i1 /\ i1 < Len(values1)

\* C14: with a consumer that never stops, what the k-way engine has emitted
\* is what tree.next has returned, each value once and in that order; a batch
\* yielded inside the loop has exactly bufferSize values, and the batch
\* yielded after the tree reported exhaustion is the last and is not empty
C14_BufferingLossless ==
    Engine(N) = "merge" =>
        /\ (pc \in {"mk_loop", "mk_final"} /\ ~stopped) => Emitted = treeLog
        /\ Completed => (out = treeLog /\ treeNexts = Len(treeLog) + 1)
        /\ (pc = "yield" /\ ret = "mk_yielded") => Len(pend) = bufferSize
        /\ (pc = "yield" /\ ret = "mk_return") =>
               (Len(pend) > 0 /\ treeLive = {} /\ treeNexts = Len(treeLog) + 1)

\* a k-way traversal that yielded a full batch and a partial one has ended
C14_Witness ==
    /\ Engine(N) = "merge" /\ Completed
    /\ Len(out) > bufferSize
    /\ ret = "mk_return" /\ Len(pend) > 0

\* C15: the value the k-way engine takes next is a minimum among the heads
\* the sources hold, and among the sources holding an equal head it is the
\* head of the source with the lowest index
C15_TieBreak ==
    [][(Engine(N) = "merge" /\ treeLog' # treeLog) =>
         /\ Len(treeLog') = Len(treeLog) + 1
         /\ LET v == treeLog'[Len(treeLog')]
            IN  /\ v.src \in treeLive
                /\ v = treeHead(v.src)
                /\ \A j \in treeLive :
                       \/ cmp(v, treeHead(j)) < 0
                       \/ cmp(v, treeHead(j)) = 0 /\ v.src <= j
      ]_vars

\* three sources held equal heads and were taken in the order of their indices
C15_Witness ==
    /\ Engine(N) = "merge"
    /\ Len(treeLog) >= 3
    /\ treeLog[1].key = treeLog[3].key
    /\ treeLog[1].src = 1 /\ treeLog[2].src = 2 /\ treeLog[3].src = 3

BufferSites == {"m2_yielded", "m2_final_yielded", "mk_yielded", "mk_return"}

\* C17: the fill offset stays within 0..bufferSize; when merge2 goes on to
\* write (one value, or two on a tie) and when merge writes the value of
\* tree.next, every index written is within 0..bufferSize-1; and every batch
\* yielded from the buffer has between 1 and bufferSize values
C17_BufferSafety ==
    /\ offset \in 0..bufferSize
    /\ buffer # <<>> => Len(buffer) = bufferSize
    /\ (pc = "m2_inner" /\ InnerCond /\ ~bufferFull(offset)) =>
           /\ offset \in 0..(bufferSize - 1)
           /\ cmp(values0[i0 + 1], values1[i1 + 1]) = 0 =>
                  (offset + 1) \in 0..(bufferSize - 1)
    /\ (pc = "mk_loop" /\ treeLive # {}) => offset \in 0..(bufferSize - 1)
    /\ (pc = "yield" /\ ret \in BufferSites) => Len(pend) \in 1..bufferSize

\* a tie wrote the last two slots of the buffer, which is now entirely full
C17_Witness ==
    /\ pc = "m2_inner" /\ offset = bufferSize
    /\ cmp(buffer[bufferSize - 1], buffer[bufferSize]) = 0
    /\ buffer[bufferSize - 1].src = 1 /\ buffer[bufferSize].src = 2

====
